---- MODULE Spec2Model ----
(***************************************************************************)
(* DeadlineCount (src/src/main.rs): the date-delta calculator              *)
(* (calculate_days_until with its chrono path and its fallback path), the  *)
(* thousands-separator formatter and message composer (written twice in    *)
(* the source: update_countdown_display and the on_save_settings handler), *)
(* and the host's event handlers around the settings file.                 *)
(*                                                                         *)
(* Text is a sequence of characters, each a one-character string; a CJK    *)
(* character of the source is written by its code point ("U+5929").        *)
(* A date is a record [year, month, day].  TLC's integers are 32 bits      *)
(* wide, so the BigInt year of the fallback path is exercised up to seven  *)
(* digits.                                                                 *)
(***************************************************************************)
EXTENDS Integers, Sequences, FiniteSets, TLC

VARIABLES
    target,        \* calculator input: the target date string
    today,         \* Local::now().naive_local().date()
    title,         \* the title the message is composed with
    result,        \* what calculate_days_until returned, or NoValue
    fmtRefresh,    \* formatted_days of update_countdown_display, or NoValue
    textRefresh,   \* display_text of update_countdown_display, or NoValue
    fmtSave,       \* formatted_days of the on_save_settings handler, or NoValue
    textSave,      \* display_text of the on_save_settings handler, or NoValue
    pc,            \* position of the pure-function runs, "host" in the host
    file,          \* the settings file: FileAbsent, FileMalformed or its JSON object
    countdown_text,\* the main window's countdown-text property
    window_pos,    \* the main window's logical position
    main_visible,  \* the main window is shown
    settings_open, \* number of settings windows shown
    last_event,    \* the handler that ran last: "startup", "tick", "save", "close", "other"
    last_saved,    \* <<title and exam_date of the last save-settings event>>, or <<>>
    autostart_entry, \* the DeadlineCount value under the Run key is set
    startup,       \* the settings main() loaded at startup
    prev_file,     \* the settings file before the handler that ran last
    days_passed    \* midnights passed since startup

vars == <<target, today, title, result, fmtRefresh, textRefresh, fmtSave, textSave,
          pc, file, countdown_text, window_pos, main_visible, settings_open,
          last_event, last_saved, autostart_entry, startup, prev_file, days_passed>>

NoValue == "none"

-----------------------------------------------------------------------------
(* Characters and decimal numerals *)

DigitChars == {"0", "1", "2", "3", "4", "5", "6", "7", "8", "9"}

DigitVal(c) ==
    CASE c = "0" -> 0 [] c = "1" -> 1 [] c = "2" -> 2 [] c = "3" -> 3 [] c = "4" -> 4
      [] c = "5" -> 5 [] c = "6" -> 6 [] c = "7" -> 7 [] c = "8" -> 8 [] c = "9" -> 9

DigitChar(d) ==
    CASE d = 0 -> "0" [] d = 1 -> "1" [] d = 2 -> "2" [] d = 3 -> "3" [] d = 4 -> "4"
      [] d = 5 -> "5" [] d = 6 -> "6" [] d = 7 -> "7" [] d = 8 -> "8" [] d = 9 -> "9"

AllDigits(s) == \A i \in 1..Len(s) : s[i] \in DigitChars

RECURSIVE DecVal(_)
DecVal(s) ==
    IF s = <<>> THEN 0
    ELSE DecVal(SubSeq(s, 1, Len(s) - 1)) * 10 + DigitVal(s[Len(s)])

RECURSIVE StripZeros(_)
StripZeros(s) ==
    IF Len(s) > 0 /\ s[1] = "0" THEN StripZeros(Tail(s)) ELSE s

RECURSIVE NatDigits(_)
NatDigits(n) ==
    IF n < 10 THEN <<DigitChar(n)>>
    ELSE Append(NatDigits(n \div 10), DigitChar(n % 10))

\* format!("{}", days) of a BigInt
BigIntToString(n) ==
    IF n < 0 THEN <<"-">> \o NatDigits(-n) ELSE NatDigits(n)

\* Local::now().format("%Y-%m-%d").to_string(), for a year in 0..9999
Pad(n, width) ==
    LET d == NatDigits(n)
    IN  [i \in 1..(IF Len(d) < width THEN width - Len(d) ELSE 0) |-> "0"] \o d

FormatDate(date) ==
    Pad(date.year, 4) \o <<"-">> \o Pad(date.month, 2) \o <<"-">> \o Pad(date.day, 2)

-----------------------------------------------------------------------------
(* The proleptic Gregorian calendar as chrono computes with it *)

IsLeapYear(y) == y % 4 = 0 /\ (y % 100 # 0 \/ y % 400 = 0)

DaysInMonth(y, m) ==
    CASE m \in {1, 3, 5, 7, 8, 10, 12} -> 31
      [] m \in {4, 6, 9, 11} -> 30
      [] m = 2 -> IF IsLeapYear(y) THEN 29 ELSE 28

IsValidDate(y, m, d) ==
    /\ m \in 1..12
    /\ d >= 1
    /\ d <= DaysInMonth(y, m)

RECURSIVE DaysBeforeMonth(_, _)
DaysBeforeMonth(y, m) ==
    IF m <= 1 THEN 0 ELSE DaysBeforeMonth(y, m - 1) + DaysInMonth(y, m - 1)

\* NaiveDate::ordinal
Ordinal(date) == DaysBeforeMonth(date.year, date.month) + date.day

\* chrono's YEAR_DELTAS table: leap days of the 400-year cycle before year i of it
YearDeltas(i) ==
    IF i = 0 THEN 0
    ELSE ((i - 1) \div 4) - ((i - 1) \div 100) + ((i - 1) \div 400) + 1

\* chrono's yo_to_cycle
YoToCycle(year_mod_400, ordinal) ==
    year_mod_400 * 365 + YearDeltas(year_mod_400) + ordinal - 1

\* NaiveDate - NaiveDate, then Duration::num_days  (target - today)
SignedDaysSince(a, b) ==
    LET cycle1 == YoToCycle(a.year % 400, Ordinal(a))
        cycle2 == YoToCycle(b.year % 400, Ordinal(b))
    IN  ((a.year \div 400) - (b.year \div 400)) * 146097 + (cycle1 - cycle2)

-----------------------------------------------------------------------------
(* NaiveDate::parse_from_str(target_date, "%Y-%m-%d") *)

ParseFail == [ok |-> FALSE]

\* chrono's scan::number: at least min and at most max leading digits
DigitPrefixLen(s, max) ==
    LET lim == IF Len(s) < max THEN Len(s) ELSE max
        ns  == {n \in 0..lim : \A i \in 1..n : s[i] \in DigitChars}
    IN  CHOOSE n \in ns : \A k \in ns : k <= n

ScanNumber(s, min, max) ==
    LET n == DigitPrefixLen(s, max)
    IN  IF n < min THEN ParseFail
        ELSE [ok |-> TRUE, digits |-> SubSeq(s, 1, n), rest |-> SubSeq(s, n + 1, Len(s))]

\* the literal '-' of the format string
ScanDash(s) ==
    IF Len(s) > 0 /\ s[1] = "-" THEN [ok |-> TRUE, rest |-> Tail(s)] ELSE ParseFail

\* %Y: an explicit sign lifts the four-digit limit; the year must lie in
\* chrono's range (about +-262143; the last year differs by one between versions)
ScanYear(s) ==
    LET signed == Len(s) > 0 /\ s[1] \in {"-", "+"}
        num    == IF signed THEN ScanNumber(Tail(s), 1, Len(s)) ELSE ScanNumber(s, 1, 4)
    IN  IF ~num.ok THEN ParseFail
        ELSE IF Len(StripZeros(num.digits)) > 6 THEN ParseFail
        ELSE LET v == DecVal(num.digits)
                 y == IF signed /\ s[1] = "-" THEN -v ELSE v
             IN  IF y < -262143 \/ y > 262142 THEN ParseFail
                 ELSE [ok |-> TRUE, year |-> y, rest |-> num.rest]

NaiveDate_parse_from_str(s) ==
    LET y == ScanYear(s)
    IN  IF ~y.ok THEN ParseFail ELSE
    LET l1 == ScanDash(y.rest)
    IN  IF ~l1.ok THEN ParseFail ELSE
    LET m == ScanNumber(l1.rest, 1, 2)
    IN  IF ~m.ok THEN ParseFail ELSE
    LET l2 == ScanDash(m.rest)
    IN  IF ~l2.ok THEN ParseFail ELSE
    LET d == ScanNumber(l2.rest, 1, 2)
    IN  IF ~d.ok THEN ParseFail
        ELSE IF d.rest # <<>> THEN ParseFail
        ELSE IF ~IsValidDate(y.year, DecVal(m.digits), DecVal(d.digits)) THEN ParseFail
        ELSE [ok |-> TRUE,
              date |-> [year |-> y.year, month |-> DecVal(m.digits), day |-> DecVal(d.digits)]]

-----------------------------------------------------------------------------
(* parse_date_fallback *)

FirstDash(s) ==
    LET ds == {i \in 1..Len(s) : s[i] = "-"}
    IN  IF ds = {} THEN 0 ELSE CHOOSE i \in ds : \A k \in ds : i <= k

\* date_str.split('-').collect()
RECURSIVE SplitDash(_)
SplitDash(s) ==
    LET i == FirstDash(s)
    IN  IF i = 0 THEN <<s>>
        ELSE <<SubSeq(s, 1, i - 1)>> \o SplitDash(SubSeq(s, i + 1, Len(s)))

\* an optional '+', then one or more digits (a field holds no '-' after the split)
Unsigned(s) == IF Len(s) > 0 /\ s[1] = "+" THEN Tail(s) ELSE s

\* parts[0].parse::<BigInt>()
ParseBigInt(s) ==
    LET u == Unsigned(s)
    IN  IF u = <<>> \/ ~AllDigits(u) THEN ParseFail
        ELSE [ok |-> TRUE, val |-> DecVal(u)]

\* whether a digit string exceeds u32::MAX = 4294967295
U32Max == <<"4", "2", "9", "4", "9", "6", "7", "2", "9", "5">>

ExceedsU32(sig) ==
    \/ Len(sig) > 10
    \/ /\ Len(sig) = 10
       /\ \E i \in 1..10 :
            /\ DigitVal(sig[i]) > DigitVal(U32Max[i])
            /\ \A k \in 1..(i - 1) : sig[k] = U32Max[k]

\* parts[1].parse::<u32>()
ParseU32(s) ==
    LET u == Unsigned(s)
    IN  IF u = <<>> \/ ~AllDigits(u) THEN ParseFail
        ELSE IF ExceedsU32(StripZeros(u)) THEN ParseFail
        ELSE [ok |-> TRUE, val |-> DecVal(u)]

\* mutant of MonthDayInRange: the upper limit of the day is not checked
MonthDayInRange_NoDayMax(month, day) ==
    ~(month < 1 \/ month > 12 \/ day < 1)

\* the range check of parse_date_fallback
MonthDayInRange(month, day) ==
    ~(month < 1 \/ month > 12 \/ day < 1 \/ day > 31)

parse_date_fallback(date_str) ==
    LET parts == SplitDash(date_str)
    IN  IF Len(parts) # 3 THEN ParseFail ELSE
    LET year == ParseBigInt(parts[1])
    IN  IF ~year.ok THEN ParseFail ELSE
    LET month == ParseU32(parts[2])
    IN  IF ~month.ok THEN ParseFail ELSE
    LET day == ParseU32(parts[3])
    IN  IF ~day.ok THEN ParseFail
        ELSE IF ~MonthDayInRange(month.val, day.val) THEN ParseFail
        ELSE [ok |-> TRUE, year |-> year.val, month |-> month.val, day |-> day.val]

-----------------------------------------------------------------------------
(* calculate_days_until *)

\* mutant of BigIntDiv: the quotient rounded toward minus infinity
BigIntDiv_Floor(a, b) == a \div b

\* BigInt's / : the quotient truncated toward zero
BigIntDiv(a, b) ==
    IF a >= 0 THEN a \div b ELSE -((-a) \div b)

\* mutant of PrimaryDays: the operands of the subtraction exchanged
PrimaryDays_Swapped(target_day, now) == SignedDaysSince(now, target_day)

\* days of the primary path: (target - today).num_days()
PrimaryDays(target_day, now) == SignedDaysSince(target_day, now)

\* the sign split of the primary path
PrimarySignSplit(days) ==
    IF days < 0 THEN [days |-> -days, expired |-> TRUE]
    ELSE [days |-> days, expired |-> FALSE]

\* mutant of FallbackSignSplit: the negation is left out
FallbackSignSplit_NoNegate(total_days) ==
    IF total_days < 0 THEN [days |-> total_days, expired |-> TRUE]
    ELSE [days |-> total_days, expired |-> FALSE]

\* the sign split of the fallback path
FallbackSignSplit(total_days) ==
    IF total_days < 0 THEN [days |-> -total_days, expired |-> TRUE]
    ELSE [days |-> total_days, expired |-> FALSE]

\* mutant of FallbackTotalDays: the same-year branch does not scale the months
FallbackTotalDays_NoMonthScale(t, now) ==
    LET year_diff == t.year - now.year
    IN  IF year_diff = 0
        THEN (t.month - now.month) + (t.day - now.day)
        ELSE year_diff * 365 + BigIntDiv(year_diff, 4)
               + (t.month - now.month) * 30 + (t.day - now.day)

FallbackTotalDays(t, now) ==
    LET year_diff == t.year - now.year
    IN  IF year_diff = 0
        THEN LET month_diff == t.month - now.month
                 day_diff   == t.day - now.day
             IN  month_diff * 30 + day_diff
        ELSE LET base_days  == year_diff * 365
                 leap_days  == BigIntDiv(year_diff, 4)
                 month_diff == t.month - now.month
                 day_diff   == t.day - now.day
                 additional_days == month_diff * 30 + day_diff
             IN  base_days + leap_days + additional_days

\* mutant of calculate_days_until: the custom parser is tried first
calculate_days_until_FallbackFirst(target_date, now) ==
    LET fb == parse_date_fallback(target_date)
    IN  IF fb.ok
        THEN FallbackSignSplit(FallbackTotalDays(fb, now))
        ELSE LET parsed == NaiveDate_parse_from_str(target_date)
             IN  IF parsed.ok
                 THEN PrimarySignSplit(PrimaryDays(parsed.date, now))
                 ELSE [days |-> 0, expired |-> FALSE]

calculate_days_until(target_date, now) ==
    LET parsed == NaiveDate_parse_from_str(target_date)
    IN  IF parsed.ok
        THEN PrimarySignSplit(PrimaryDays(parsed.date, now))
        ELSE LET fb == parse_date_fallback(target_date)
             IN  IF fb.ok
                 THEN FallbackSignSplit(FallbackTotalDays(fb, now))
                 ELSE [days |-> 0, expired |-> FALSE]

-----------------------------------------------------------------------------
(* The message: update_countdown_display, and the copy of its body in the   *)
(* on_save_settings handler                                                 *)

Comma == ","

\* mutant of ThousandsLoop: the last digit is not exempted from the comma
RECURSIVE ThousandsLoop_Trailing(_, _, _)
ThousandsLoop_Trailing(chars, i, acc) ==
    LET len == Len(chars)
    IN  IF i >= len THEN acc
        ELSE LET pushed == Append(acc, chars[i + 1])
             IN  ThousandsLoop_Trailing(chars, i + 1,
                     IF (len - i - 1) % 3 = 0 THEN Append(pushed, Comma) ELSE pushed)

\* the for loop of update_countdown_display, from index i with result acc
RECURSIVE ThousandsLoop(_, _, _)
ThousandsLoop(chars, i, acc) ==
    LET len == Len(chars)
    IN  IF i >= len THEN acc
        ELSE LET pushed == Append(acc, chars[i + 1])
             IN  ThousandsLoop(chars, i + 1,
                     IF (len - i - 1) % 3 = 0 /\ i # len - 1
                     THEN Append(pushed, Comma) ELSE pushed)

\* formatted_days of update_countdown_display
FormattedDays(days) ==
    LET days_str == BigIntToString(days)
    IN  IF Len(days_str) > 3 THEN ThousandsLoop(days_str, 0, <<>>) ELSE days_str

ExpiredPrefix ==
    <<" ", "0", " ", "U+5929", "U+FF08", "U+5012", "U+8BA1", "U+65F6", "U+5DF2", "U+8FC7", "U+671F">>

ExpiredSuffix == <<"U+5929", "U+FF09">>

RemainingSuffix == <<" ", "U+5929">>

\* display_text of update_countdown_display
DisplayText(settings_title, formatted_days, is_expired) ==
    IF is_expired
    THEN settings_title \o ExpiredPrefix \o formatted_days \o ExpiredSuffix
    ELSE settings_title \o <<" ">> \o formatted_days \o RemainingSuffix

\* the for loop of the on_save_settings handler
RECURSIVE SaveThousandsLoop(_, _, _)
SaveThousandsLoop(chars, i, acc) ==
    LET len == Len(chars)
    IN  IF i >= len THEN acc
        ELSE LET pushed == Append(acc, chars[i + 1])
             IN  SaveThousandsLoop(chars, i + 1,
                     IF (len - i - 1) % 3 = 0 /\ i # len - 1
                     THEN Append(pushed, Comma) ELSE pushed)

\* formatted_days of the on_save_settings handler
SaveFormattedDays(days) ==
    LET days_str == BigIntToString(days)
    IN  IF Len(days_str) > 3 THEN SaveThousandsLoop(days_str, 0, <<>>) ELSE days_str

\* mutant of SaveDisplayText: the expired form leaves out the "0 <day>" part
SaveDisplayText_NoZero(new_title, formatted_days, is_expired) ==
    IF is_expired
    THEN new_title \o <<" ", "U+FF08", "U+5012", "U+8BA1", "U+65F6", "U+5DF2", "U+8FC7", "U+671F">>
           \o formatted_days \o ExpiredSuffix
    ELSE new_title \o <<" ">> \o formatted_days \o RemainingSuffix

\* display_text of the on_save_settings handler
SaveDisplayText(new_title, formatted_days, is_expired) ==
    IF is_expired
    THEN new_title \o ExpiredPrefix \o formatted_days \o ExpiredSuffix
    ELSE new_title \o <<" ">> \o formatted_days \o RemainingSuffix

\* what update_countdown_display hands to set_countdown_text
update_countdown_display(settings, now) ==
    LET r == calculate_days_until(settings.exam_date, now)
    IN  DisplayText(settings.title, FormattedDays(r.days), r.expired)

\* what the on_save_settings handler hands to set_countdown_text
save_countdown_display(new_title, exam_date, now) ==
    LET r == calculate_days_until(exam_date, now)
    IN  SaveDisplayText(new_title, SaveFormattedDays(r.days), r.expired)

\* AppSettings::default().title
DefaultTitle == <<"U+8DDD", "U+79BB", "U+622A", "U+6B62", "U+65E5", "U+671F", "U+8FD8", "U+6709">>

-----------------------------------------------------------------------------
(* Inputs of the pure-function runs *)

Date(y, m, d) == [year |-> y, month |-> m, day |-> d]

Todays ==
    { Date(2024, 1, 1), Date(2024, 1, 31), Date(2024, 3, 15),
      Date(2023, 12, 31), Date(2000, 2, 29), Date(1900, 3, 1) }

YearFields ==
    { <<"2","0","2","4">>, <<"2","0","2","3">>, <<"2","0","2","5">>, <<"2","0","1","9">>,
      <<"9","9","9","9">>, <<"0","0","0","0">>, <<"0","2","0","2","4">>,
      <<"1","2","3","4","5">>, <<"+","3","0","0","0","0","0">>,
      <<"1","0","0","0","0","0","0">>, <<"+","2","0","2","4">>, <<"2","0","x","4">>, <<>> }

MonthFields ==
    { <<"0","1">>, <<"0","2">>, <<"3">>, <<"1","2">>, <<"1","3">>, <<"0","0">>,
      <<"+","2">>, <<"x">> }

DayFields ==
    { <<"0","1">>, <<"1","5">>, <<"2","9">>, <<"3","0">>, <<"3","1">>, <<"3","2">>,
      <<"0","1","1">>, <<"0">> }

Slashed == <<"2","0","2","4","/","1","3","/","5","0">>

OddTargets ==
    { Slashed,
      <<>>,
      <<"2","0","2","4","-","0","3">>,
      <<"2","0","2","4","-","0","3","-","1","5","-","0","1">>,
      <<"-","0","0","0","5","-","0","1","-","0","1">>,
      <<"-","9","9","9","9","9","9","9","-","0","1","-","0","1">>,
      <<"2","0","2","7","-","0","5","-","1","9">>,
      <<"2","0","2","4","-","0","1","-","4","2","9","4","9","6","7","2","9","6">>,
      <<"2","0","2","4","-","x","-","y">> }

Targets ==
    { y \o <<"-">> \o m \o <<"-">> \o d : y \in YearFields, m \in MonthFields, d \in DayFields }
    \cup OddTargets

Titles == { DefaultTitle, <<"E","x","a","m">>, <<>> }

MaxSmallMagnitude == 1100

Magnitudes ==
    (0..MaxSmallMagnitude) \cup
    { 1234, 9999, 10000, 99999, 100000, 123456, 999999, 1000000, 1234567,
      2912809, 2912868, 12345678, 999999999, 1000000000, 2147483647 }

-----------------------------------------------------------------------------
(* The pure-function runs: SpecCalc applies calculate_days_until and then   *)
(* both message builders to a target and a today; SpecFmt applies both      *)
(* message builders to a magnitude and an overdue flag.                     *)

HostIdle ==
    /\ file = [kind |-> "absent"]
    /\ countdown_text = NoValue
    /\ window_pos = NoValue
    /\ main_visible = FALSE
    /\ settings_open = 0
    /\ last_event = NoValue
    /\ last_saved = <<>>
    /\ autostart_entry = FALSE
    /\ startup = NoValue
    /\ prev_file = [kind |-> "absent"]
    /\ days_passed = 0

hostVars == <<file, countdown_text, window_pos, main_visible, settings_open,
              last_event, last_saved, autostart_entry, startup, prev_file, days_passed>>

InitCalc ==
    /\ target \in Targets
    /\ today \in Todays
    /\ title \in Titles
    /\ result = NoValue
    /\ fmtRefresh = NoValue
    /\ textRefresh = NoValue
    /\ fmtSave = NoValue
    /\ textSave = NoValue
    /\ pc = "input"
    /\ HostIdle

Calculate ==
    /\ pc = "input"
    /\ result' = calculate_days_until(target, today)
    /\ pc' = "calculated"
    /\ UNCHANGED <<target, today, title, fmtRefresh, textRefresh, fmtSave, textSave>>
    /\ UNCHANGED hostVars

RefreshMessage ==
    /\ pc = "calculated"
    /\ fmtRefresh' = FormattedDays(result.days)
    /\ textRefresh' = DisplayText(title, FormattedDays(result.days), result.expired)
    /\ pc' = "refreshed"
    /\ UNCHANGED <<target, today, title, result, fmtSave, textSave>>
    /\ UNCHANGED hostVars

SaveMessage ==
    /\ pc = "refreshed"
    /\ fmtSave' = SaveFormattedDays(result.days)
    /\ textSave' = SaveDisplayText(title, SaveFormattedDays(result.days), result.expired)
    /\ pc' = "saved"
    /\ UNCHANGED <<target, today, title, result, fmtRefresh, textRefresh>>
    /\ UNCHANGED hostVars

NextCalc == Calculate \/ RefreshMessage \/ SaveMessage

SpecCalc == InitCalc /\ [][NextCalc]_vars

InitFmt ==
    /\ target = <<>>
    /\ today = Date(2024, 1, 1)
    /\ title \in Titles
    /\ result \in [days : Magnitudes, expired : BOOLEAN]
    /\ fmtRefresh = NoValue
    /\ textRefresh = NoValue
    /\ fmtSave = NoValue
    /\ textSave = NoValue
    /\ pc = "calculated"
    /\ HostIdle

NextFmt == RefreshMessage \/ SaveMessage

SpecFmt == InitFmt /\ [][NextFmt]_vars

-----------------------------------------------------------------------------
(* Reference notions the properties are stated with *)

Abs(n) == IF n < 0 THEN -n ELSE n

\* the real calendar, by its rules
RealLeap(y) == (y % 4 = 0 /\ y % 100 # 0) \/ y % 400 = 0

RealMonthLength(y, m) ==
    <<31, IF RealLeap(y) THEN 29 ELSE 28, 31, 30, 31, 30, 31, 31, 30, 31, 30, 31>>[m]

RealDate(date) ==
    /\ date.month \in 1..12
    /\ date.day \in 1..RealMonthLength(date.year, date.month)

\* days of the year before the date, counted one by one
DaysEarlierInYear(date) ==
    Cardinality({ md \in (1..12) \X (1..31) :
                    /\ md[2] <= RealMonthLength(date.year, md[1])
                    /\ \/ md[1] < date.month
                       \/ md[1] = date.month /\ md[2] < date.day })

\* days from 1 January of year y1 to 1 January of year y2 >= y1
DaysOfYears(y1, y2) ==
    365 * (y2 - y1) + Cardinality({ y \in y1..(y2 - 1) : RealLeap(y) })

\* the true day difference t - n
TrueDayDifference(t, n) ==
    (IF t.year >= n.year THEN DaysOfYears(n.year, t.year) ELSE -DaysOfYears(t.year, n.year))
      + DaysEarlierInYear(t) - DaysEarlierInYear(n)

\* the strict form: four digits, '-', two digits, '-', two digits
StrictForm(s) ==
    /\ Len(s) = 10
    /\ s[5] = "-"
    /\ s[8] = "-"
    /\ \A i \in {1, 2, 3, 4, 6, 7, 9, 10} : s[i] \in DigitChars

StrictDate(s) ==
    Date(DecVal(SubSeq(s, 1, 4)), DecVal(SubSeq(s, 6, 7)), DecVal(SubSeq(s, 9, 10)))

\* which path of calculate_days_until a target takes
PathOf(s) ==
    IF NaiveDate_parse_from_str(s).ok THEN "primary"
    ELSE IF parse_date_fallback(s).ok THEN "fallback"
    ELSE "default"

Calculated == pc \in {"calculated", "refreshed", "saved"}

T9999 == <<"9","9","9","9","-","0","1","-","0","1">>

\* C1: for a target that is a real calendar date in strict YYYY-MM-DD form,
\* calculate_days_until returns the magnitude of the true proleptic-Gregorian day
\* difference target - today, and overdue exactly when that difference is negative.
Thm_C1 ==
    (Calculated /\ target # <<>> /\ StrictForm(target) /\ RealDate(StrictDate(target)))
      => LET diff == TrueDayDifference(StrictDate(target), today)
         IN  result = [days |-> Abs(diff), expired |-> diff < 0]

Wit_C1 ==
    /\ pc = "calculated"
    /\ StrictForm(target)
    /\ RealDate(StrictDate(target))
    /\ StrictDate(target) = Date(2024, 2, 29)
    /\ today = Date(1900, 3, 1)
    /\ result = [days |-> 45290, expired |-> FALSE]

\* C2: for every target string and every today, calculate_days_until returns a
\* result whose magnitude is >= 0, on the primary, the fallback and the degraded
\* default path alike; the sign is carried by the overdue flag only.
Thm_C2 ==
    Calculated =>
        /\ PathOf(target) \in {"primary", "fallback", "default"}
        /\ result \in [days : Nat, expired : BOOLEAN]

Wit_C2 ==
    /\ pc = "calculated"
    /\ PathOf(target) = "fallback"
    /\ parse_date_fallback(target).year < today.year
    /\ result.expired
    /\ result.days > 0

\* C3 as stated: target "9999-01-01" at today 2024-01-01 yields magnitude
\* 2,912,868, not overdue.
Orig_C3 ==
    (Calculated /\ target = T9999 /\ today = Date(2024, 1, 1))
      => result = [days |-> 2912868, expired |-> FALSE]

\* C3 amended: target "9999-01-01" at today 2024-01-01 is parsed by the strict
\* parse (primary path) and yields the true day difference 2,912,809, not overdue.
Thm_C3 ==
    (Calculated /\ target = T9999 /\ today = Date(2024, 1, 1))
      => /\ PathOf(target) = "primary"
         /\ result = [days |-> 2912809, expired |-> FALSE]

Wit_C3 ==
    /\ pc = "calculated"
    /\ target = T9999
    /\ today = Date(2024, 1, 1)
    /\ result.days = 2912809

\* the signed delta of the fallback path as C4 states it; the quotient by 4
\* truncated toward zero leaves a remainder with the sign of year_diff
ClaimedDelta(year, month, day, now) ==
    LET year_diff == year - now.year
        remainder == IF year_diff >= 0 THEN year_diff % 4 ELSE -((-year_diff) % 4)
    IN  year_diff * 365 + ((year_diff - remainder) \div 4)
          + (month - now.month) * 30 + (day - now.day)

\* C4: when the strict parse fails and the fallback parse yields (year, month,
\* day), the signed delta is year_diff*365 + year_diff/4 (truncated toward zero) +
\* (month - today_month)*30 + (day - today_day), which for year_diff = 0 is
\* (month - today_month)*30 + (day - today_day); the result is (-delta, true) for a
\* negative delta and (delta, false) otherwise.
Thm_C4 ==
    (Calculated /\ PathOf(target) = "fallback")
      => LET fb    == parse_date_fallback(target)
             delta == ClaimedDelta(fb.year, fb.month, fb.day, today)
         IN  /\ (fb.year = today.year
                   => delta = (fb.month - today.month) * 30 + (fb.day - today.day))
             /\ result = IF delta < 0 THEN [days |-> -delta, expired |-> TRUE]
                         ELSE [days |-> delta, expired |-> FALSE]

Wit_C4 ==
    /\ pc = "calculated"
    /\ PathOf(target) = "fallback"
    /\ parse_date_fallback(target).year - today.year = -5
    /\ parse_date_fallback(target).month = 2
    /\ parse_date_fallback(target).day = 30
    /\ today = Date(2024, 1, 1)
    /\ result = [days |-> 1767, expired |-> TRUE]

\* the ways the fallback parse fails, as C5 lists them
ListedFallbackFailure(s) ==
    LET parts == SplitDash(s)
    IN  \/ Len(parts) # 3
        \/ ~ParseBigInt(parts[1]).ok
        \/ ~ParseU32(parts[2]).ok
        \/ ~ParseU32(parts[3]).ok
        \/ ParseU32(parts[2]).val \notin 1..12
        \/ ParseU32(parts[3]).val \notin 1..31

\* C5: when the strict parse fails and the fallback parse fails (not exactly 3
\* fields, a field that is no number, month outside [1,12] or day outside [1,31])
\* calculate_days_until returns exactly (0, false); so does target "2024/13/50".
Thm_C5 ==
    Calculated =>
        /\ (~NaiveDate_parse_from_str(target).ok /\ ListedFallbackFailure(target))
              => result = [days |-> 0, expired |-> FALSE]
        /\ target = Slashed => result = [days |-> 0, expired |-> FALSE]

Wit_C5 ==
    /\ pc = "calculated"
    /\ target = <<"2","0","2","5">> \o <<"-">> \o <<"0","1">> \o <<"-">> \o <<"3","2">>
    /\ today = Date(2024, 1, 1)
    /\ ListedFallbackFailure(target)
    /\ result = [days |-> 0, expired |-> FALSE]

\* (year, month, day) before today in lexicographic order
LexBefore(year, month, day, now) ==
    \/ year < now.year
    \/ year = now.year /\ month < now.month
    \/ year = now.year /\ month = now.month /\ day < now.day

\* C9: on the fallback path a target lexicographically on or after today is never
\* overdue, an overdue result has its target strictly before today, and an
\* overdue result has magnitude >= 1.
Thm_C9 ==
    (Calculated /\ PathOf(target) = "fallback")
      => LET fb == parse_date_fallback(target)
         IN  /\ ~LexBefore(fb.year, fb.month, fb.day, today) => ~result.expired
             /\ result.expired => LexBefore(fb.year, fb.month, fb.day, today)
             /\ result.expired => result.days >= 1

Wit_C9 ==
    /\ pc = "calculated"
    /\ PathOf(target) = "fallback"
    /\ today = Date(2024, 1, 31)
    /\ parse_date_fallback(target).year = 2024
    /\ parse_date_fallback(target).month = 2
    /\ parse_date_fallback(target).day = 1
    /\ result = [days |-> 0, expired |-> FALSE]

-----------------------------------------------------------------------------
(* The formatter and the message *)

NoCommas(f) == SelectSeq(f, LAMBDA c : c # Comma)

\* digits (characters other than ',') of f right of position i
DigitsRightOf(f, i) == Len(NoCommas(SubSeq(f, i + 1, Len(f))))

\* f is the digit string of n with a ',' exactly between the digits whose
\* right-hand side holds a multiple of 3 digits
Grouped(f, n) ==
    LET plain == NoCommas(f)
    IN  /\ Len(plain) >= 1
        /\ AllDigits(plain)
        /\ DecVal(plain) = n
        /\ (Len(plain) > 1 => plain[1] # "0")
        /\ f[1] # Comma
        /\ f[Len(f)] # Comma
        /\ \A i \in 1..(Len(f) - 1) :
              /\ f[i] = Comma => (f[i + 1] # Comma /\ DigitsRightOf(f, i) % 3 = 0)
              /\ (f[i] # Comma /\ f[i + 1] # Comma) => DigitsRightOf(f, i) % 3 # 0
        /\ (Len(plain) <= 3 => f = plain)

\* C6: the formatted digit string of a magnitude is its decimal digits in order
\* with a ',' exactly between every two digits whose right-hand side holds a
\* multiple of 3 digits: no leading or trailing comma, groups of 3 after a first
\* group of 1 to 3, no comma for at most 3 digits, and the commas removed give
\* the plain digit string; 1234 gives "1,234" and 1000000 gives "1,000,000".
Thm_C6 ==
    /\ pc \in {"refreshed", "saved"} =>
          /\ Grouped(fmtRefresh, result.days)
          /\ result.days = 1234 => fmtRefresh = <<"1", ",", "2", "3", "4">>
          /\ result.days = 1000000
                => fmtRefresh = <<"1", ",", "0", "0", "0", ",", "0", "0", "0">>
    /\ pc = "saved" =>
          /\ Grouped(fmtSave, result.days)
          /\ result.days = 1234 => fmtSave = <<"1", ",", "2", "3", "4">>
          /\ result.days = 1000000
                => fmtSave = <<"1", ",", "0", "0", "0", ",", "0", "0", "0">>

Wit_C6 ==
    /\ pc = "saved"
    /\ result.days = 1234567
    /\ fmtRefresh = <<"1", ",", "2", "3", "4", ",", "5", "6", "7">>
    /\ fmtSave = fmtRefresh

\* the digit string of n grouped in threes from the right
RECURSIVE GroupFromRight(_)
GroupFromRight(digits) ==
    IF Len(digits) <= 3 THEN digits
    ELSE GroupFromRight(SubSeq(digits, 1, Len(digits) - 3))
           \o <<Comma>> \o SubSeq(digits, Len(digits) - 2, Len(digits))

\* the message as C7 states it
ClaimedMessage(t, magnitude, overdue) ==
    LET formatted_magnitude == GroupFromRight(NatDigits(magnitude))
    IN  IF overdue
        THEN t \o <<" ", "0", " ", "U+5929", "U+FF08">>
               \o <<"U+5012", "U+8BA1", "U+65F6", "U+5DF2", "U+8FC7", "U+671F">>
               \o formatted_magnitude \o <<"U+5929", "U+FF09">>
        ELSE t \o <<" ">> \o formatted_magnitude \o <<" ", "U+5929">>

\* C7: the message is "{title} 0 <day>(<expired>{formatted}<day>)" when overdue and
\* "{title} {formatted} <day>" otherwise, and update_countdown_display and the
\* on_save_settings handler build the identical message for the same title and
\* target date at the same today.
Thm_C7 ==
    /\ pc \in {"refreshed", "saved"}
          => textRefresh = ClaimedMessage(title, result.days, result.expired)
    /\ pc = "saved"
          => /\ textSave = ClaimedMessage(title, result.days, result.expired)
             /\ textSave = textRefresh
             /\ update_countdown_display([title |-> title, exam_date |-> target], today)
                  = save_countdown_display(title, target, today)
             /\ textSave = save_countdown_display(title, target, today)

Wit_C7 ==
    /\ pc = "saved"
    /\ title = <<"E", "x", "a", "m">>
    /\ result = [days |-> 1767, expired |-> TRUE]
    /\ textSave = <<"E", "x", "a", "m", " ", "0", " ", "U+5929", "U+FF08",
                    "U+5012", "U+8BA1", "U+65F6", "U+5DF2", "U+8FC7", "U+671F",
                    "1", ",", "7", "6", "7", "U+5929", "U+FF09">>
    /\ textRefresh = textSave

-----------------------------------------------------------------------------
(* The host: main() and the handlers it installs.  The settings file is     *)
(* FileAbsent, FileMalformed (unreadable, or JSON that is no AppSettings),   *)
(* or the JSON object save_settings wrote, kept as the record of its fields. *)

FileAbsent == [kind |-> "absent"]

FileMalformed == [kind |-> "malformed"]

\* serde_json::from_str succeeds on the file's contents
WellFormed(f) == f.kind = "json"

\* AppSettings::default()
DefaultSettings(now) ==
    [title |-> DefaultTitle, exam_date |-> FormatDate(now), auto_start |-> FALSE,
     window_x |-> 100, window_y |-> 100]

load_settings(f, now) ==
    IF WellFormed(f)
    THEN [title |-> f.title, exam_date |-> f.exam_date, auto_start |-> f.auto_start,
          window_x |-> f.window_x, window_y |-> f.window_y]
    ELSE DefaultSettings(now)

\* the file after save_settings(settings), the write succeeding
save_settings(settings) ==
    [kind |-> "json", title |-> settings.title, exam_date |-> settings.exam_date,
     auto_start |-> settings.auto_start,
     window_x |-> settings.window_x, window_y |-> settings.window_y]

\* mutant of CloseSettings: the defaults are taken instead of the loaded settings
CloseSettings_Defaults(f, now, pos) ==
    [DefaultSettings(now) EXCEPT !.window_x = pos.x, !.window_y = pos.y]

\* current_settings of on_close_window when it is saved
CloseSettings(f, now, pos) ==
    [load_settings(f, now) EXCEPT !.window_x = pos.x, !.window_y = pos.y]

\* new_settings of on_save_settings
NewSettings(new_title, exam_date, auto_start, pos) ==
    [title |-> new_title, exam_date |-> exam_date, auto_start |-> auto_start,
     window_x |-> pos.x, window_y |-> pos.y]

\* what the timer callback hands to set_countdown_text
TimerText(f, now) == update_countdown_display(load_settings(f, now), now)

\* the day after a date
NextDay(date) ==
    IF date.day < DaysInMonth(date.year, date.month)
    THEN Date(date.year, date.month, date.day + 1)
    ELSE IF date.month < 12 THEN Date(date.year, date.month + 1, 1)
    ELSE Date(date.year + 1, 1, 1)

MaxDaysPassed == 2

MaxSettingsWindows == 1

MaxMoved == 1

StartDays == { Date(2024, 2, 28) }

ExamTitle == <<"E", "x", "a", "m">>

SavedTitles == { ExamTitle, <<"D", "u", "e">> }

SavedDates ==
    { <<"2","0","2","4","-","0","3","-","0","1">>,
      <<"2","0","2","4","-","0","2","-","3","0">> }

InitialFiles ==
    { FileAbsent, FileMalformed,
      [kind |-> "json", title |-> ExamTitle,
       exam_date |-> <<"2","0","2","4","-","0","3","-","0","1">>,
       auto_start |-> TRUE, window_x |-> 40, window_y |-> 60] }

pureVars == <<target, title, result, fmtRefresh, textRefresh, fmtSave, textSave, pc>>

\* the event loop runs while a window is shown
Running == main_visible \/ settings_open > 0

\* main(), up to ui.run()
Init ==
    /\ target = <<>>
    /\ title = <<>>
    /\ result = NoValue
    /\ fmtRefresh = NoValue
    /\ textRefresh = NoValue
    /\ fmtSave = NoValue
    /\ textSave = NoValue
    /\ pc = "host"
    /\ today \in StartDays
    /\ file \in InitialFiles
    /\ startup = load_settings(file, today)
    /\ window_pos = [x |-> startup.window_x, y |-> startup.window_y]
    /\ countdown_text = update_countdown_display(startup, today)
    /\ main_visible = TRUE
    /\ settings_open = 0
    /\ last_event = "startup"
    /\ last_saved = <<>>
    /\ autostart_entry = FALSE
    /\ prev_file = file
    /\ days_passed = 0

\* the timer callback
TimerTick ==
    /\ Running
    /\ countdown_text' = TimerText(file, today)
    /\ last_event' = "tick"
    /\ prev_file' = file
    /\ UNCHANGED <<file, today, window_pos, main_visible, settings_open, last_saved,
                   autostart_entry, startup, days_passed>>
    /\ UNCHANGED pureVars

\* on_close_window
CloseWindow ==
    /\ main_visible
    /\ file' = save_settings(CloseSettings(file, today, window_pos))
    /\ main_visible' = FALSE
    /\ last_event' = "close"
    /\ prev_file' = file
    /\ UNCHANGED <<today, countdown_text, window_pos, settings_open, last_saved,
                   autostart_entry, startup, days_passed>>
    /\ UNCHANGED pureVars

\* on_move_window
MoveWindow ==
    /\ main_visible
    /\ \E offset_x \in {-1, 1} :
          /\ window_pos.x + offset_x \in startup.window_x..(startup.window_x + MaxMoved)
          /\ window_pos' = [window_pos EXCEPT !.x = window_pos.x + offset_x]
    /\ last_event' = "other"
    /\ prev_file' = file
    /\ UNCHANGED <<file, today, countdown_text, main_visible, settings_open, last_saved,
                   autostart_entry, startup, days_passed>>
    /\ UNCHANGED pureVars

\* on_open_settings
OpenSettings ==
    /\ main_visible
    /\ settings_open < MaxSettingsWindows
    /\ settings_open' = settings_open + 1
    /\ last_event' = "other"
    /\ prev_file' = file
    /\ UNCHANGED <<file, today, countdown_text, window_pos, main_visible, last_saved,
                   autostart_entry, startup, days_passed>>
    /\ UNCHANGED pureVars

\* a settings window's on_saved: on_save_settings of the main window, then hide
SaveSettings ==
    /\ settings_open > 0
    /\ \E new_title \in SavedTitles, exam_date \in SavedDates, auto_start \in BOOLEAN :
          /\ countdown_text' = save_countdown_display(new_title, exam_date, today)
          /\ file' = save_settings(NewSettings(new_title, exam_date, auto_start, window_pos))
          /\ autostart_entry' = auto_start
          /\ last_saved' = <<[title |-> new_title, exam_date |-> exam_date]>>
    /\ settings_open' = settings_open - 1
    /\ last_event' = "save"
    /\ prev_file' = file
    /\ UNCHANGED <<today, window_pos, main_visible, startup, days_passed>>
    /\ UNCHANGED pureVars

\* a settings window's on_window_closed
CloseSettingsWindow ==
    /\ settings_open > 0
    /\ settings_open' = settings_open - 1
    /\ last_event' = "other"
    /\ prev_file' = file
    /\ UNCHANGED <<file, today, countdown_text, window_pos, main_visible, last_saved,
                   autostart_entry, startup, days_passed>>
    /\ UNCHANGED pureVars

\* the system clock passes midnight
Midnight ==
    /\ Running
    /\ days_passed < MaxDaysPassed
    /\ today' = NextDay(today)
    /\ days_passed' = days_passed + 1
    /\ last_event' = "other"
    /\ prev_file' = file
    /\ UNCHANGED <<file, countdown_text, window_pos, main_visible, settings_open,
                   last_saved, autostart_entry, startup>>
    /\ UNCHANGED pureVars

Next ==
    \/ TimerTick
    \/ CloseWindow
    \/ MoveWindow
    \/ OpenSettings
    \/ SaveSettings
    \/ CloseSettingsWindow
    \/ Midnight

Spec == Init /\ [][Next]_vars

-----------------------------------------------------------------------------
(* The host's properties *)

\* the formatted countdown of a title and a target date at a today
Countdown(t, exam_date, now) ==
    LET r == calculate_days_until(exam_date, now)
    IN  ClaimedMessage(t, r.days, r.expired)

\* C8: after each save-settings event and after each timer tick the displayed text
\* is the formatted countdown of the most recently saved title and target date
\* (before any save: of the settings loaded at startup, or of the defaults),
\* evaluated at the today of that event; every settings-file write succeeds.
Claim_C8 ==
    last_event \in {"save", "tick"} =>
        IF last_saved # <<>>
        THEN countdown_text = Countdown(last_saved[1].title, last_saved[1].exam_date, today)
        ELSE \/ countdown_text = Countdown(startup.title, startup.exam_date, today)
             \/ countdown_text = Countdown(DefaultSettings(today).title,
                                           DefaultSettings(today).exam_date, today)

\* what holds instead: after a save-settings event or a timer tick the displayed
\* text is the formatted countdown of what the settings file holds then (of the
\* defaults of that day when it is absent or malformed)
PersistedCountdown ==
    last_event \in {"save", "tick"} =>
        LET current == load_settings(file, today)
        IN  countdown_text = Countdown(current.title, current.exam_date, today)

\* C10: a close-window event on a present, well-formed settings file leaves its
\* title, exam_date and auto_start as they were and stores the window position in
\* window_x and window_y; a timer tick leaves the settings file unchanged.
Thm_C10 ==
    /\ (last_event = "close" /\ WellFormed(prev_file)) =>
          /\ WellFormed(file)
          /\ file.title = prev_file.title
          /\ file.exam_date = prev_file.exam_date
          /\ file.auto_start = prev_file.auto_start
          /\ file.window_x = window_pos.x
          /\ file.window_y = window_pos.y
    /\ last_event = "tick" => file = prev_file

Wit_C10 ==
    /\ last_event = "close"
    /\ WellFormed(prev_file)
    /\ last_saved # <<>>
    /\ prev_file.title = last_saved[1].title
    /\ days_passed > 0
    /\ file.title = prev_file.title
    /\ file.exam_date = prev_file.exam_date
    /\ file.window_x # prev_file.window_x

====
